---- MODULE Spec2Model ----
(***************************************************************************)
(* Model of the pru diagnostic pipeline (lib.rs validate_liberally and the *)
(* modules it calls): tolerant JSON parsing, schema validation, and the    *)
(* translation of JSON pointers to line ranges by text search.             *)
(*                                                                         *)
(* A document is a Rust &str: a sequence of BYTES that is valid UTF-8.     *)
(* Offsets, lengths, find and split_off all count bytes, as in Rust.  The  *)
(* two-byte character U+00E9 is the byte pair <<"C3", "A9">>.              *)
(***************************************************************************)
EXTENDS Integers, Sequences, FiniteSets, TLC

VARIABLES
    file_contents,   \* the document text handed to the pipeline / helpers
    json_schema,     \* the schema value of the current validate_liberally call
    pc,              \* position of the current call
    serde_result,    \* what serde_json::from_str returned (parsing.rs:51)
    parsed,          \* ParsedContent built from it (parsing.rs:40-43)
    validation_errors, \* validator.iter_errors(..).collect() (validation.rs:43)
    result,          \* what the call returned to its caller
    json_pointer,    \* argument of a helper call (pointer_index / json_pointer)
    index,           \* argument of line_number::from_index
    helper_out,      \* what the helper call produced
    json_schemas,    \* Backend.json_schemas: the map behind the RwLock
    rw_lock,         \* the RwLock: the tasks holding it to read, to write
    task,            \* each get_or_load_schema call: where it is, its key
    loads,           \* per key, how often serde_json::from_str built a schema
    schema_parses,   \* whether the embedded SERVICE_SCHEMA is valid JSON
    change,          \* the on_change call in progress: its uri and version
    client           \* per uri, what publish_diagnostics last sent the client

cache_vars == <<json_schemas, rw_lock, task, loads, schema_parses>>

pipeline_vars ==
    <<file_contents, json_schema, pc, serde_result, parsed,
      validation_errors, result, json_pointer, index, helper_out>>

client_vars == <<change, client>>

vars == <<pipeline_vars, cache_vars, client_vars>>

-----------------------------------------------------------------------------
(* Bounds of the model *)

MaxLen == 3
MaxPtrLen == 3
NumTasks == 2
MaxCalls == 2
MaxVersion == 2

-----------------------------------------------------------------------------
(* Option<T>, and the outcome of a call that may panic *)

None == [some |-> FALSE]
Some(x) == [some |-> TRUE, v |-> x]
unwrap_or(o, d) == IF o.some THEN o.v ELSE d

\* What a call that may panic produces: a value, or the unwinding panic
Done(x) == [panic |-> FALSE, v |-> x]
Panicked == [panic |-> TRUE]

-----------------------------------------------------------------------------
(* Bytes and &str *)

NL == "\n"
QUOTE == "\""
SLASH == "/"
LeadByte == "C3"
ContByte == "A9"

\* `n as u32` of a usize: the identity on every count a document of the model
\* can produce (its lines and columns are at most its length)
AsU32(n) == n
\* u32 `a - b`: the subtraction overflows below zero (a panic with overflow
\* checks on; serde_json lines start at 1, so no document reaches it)
U32Sub(a, b) == IF a >= b THEN Done(a - b) ELSE Panicked
\* u32::saturating_sub
saturating_sub(a, b) == IF a >= b THEN a - b ELSE 0

Min(a, b) == IF a <= b THEN a ELSE b

\* str::is_char_boundary: 0 and len are boundaries, and so is every index
\* whose byte is not a UTF-8 continuation byte.
is_char_boundary(s, i) ==
    \/ i = 0
    \/ i = Len(s)
    \/ (i > 0 /\ i < Len(s) /\ s[i + 1] # ContByte)

\* The byte sequences that are a &str: well-formed UTF-8
IsUtf8(s) ==
    \A i \in 1..Len(s) :
        /\ (s[i] = LeadByte => (i < Len(s) /\ s[i + 1] = ContByte))
        /\ (s[i] = ContByte => (i > 1 /\ s[i - 1] = LeadByte))

\* &s[..i]; slicing off a character boundary panics
SliceTo(s, i) == SubSeq(s, 1, i)
SliceFrom(s, i) == SubSeq(s, i + 1, Len(s))

StartsWithAt(hay, pat, i) ==
    /\ i + Len(pat) <= Len(hay)
    /\ \A k \in 1..Len(pat) : hay[i + k] = pat[k]

\* find as str::rfind would do it: the last match, the empty pattern at len
rfind(hay, pat) ==
    LET hits == {i \in 0..(Len(hay) - Len(pat)) : StartsWithAt(hay, pat, i)}
    IN  IF hits = {} THEN None
        ELSE Some(CHOOSE i \in hits : \A j \in hits : i >= j)

\* str::find(&str): byte index of the first (leftmost) match, None if absent;
\* the empty pattern matches at 0.
find(hay, pat) ==
    LET hits == {i \in 0..(Len(hay) - Len(pat)) : StartsWithAt(hay, pat, i)}
    IN  IF hits = {} THEN None
        ELSE Some(CHOOSE i \in hits : \A j \in hits : i <= j)

\* str::split('/'): the items between separators; "" gives one empty item,
\* a leading or trailing separator gives an empty item.
RECURSIVE SplitFrom(_, _, _)
SplitFrom(s, sep, cur) ==
    IF s = <<>> THEN <<cur>>
    ELSE IF Head(s) = sep THEN <<cur>> \o SplitFrom(Tail(s), sep, <<>>)
    ELSE SplitFrom(Tail(s), sep, Append(cur, Head(s)))

split(s, sep) == SplitFrom(s, sep, <<>>)

\* split_off giving what it leaves behind: the head before byte `at`
split_off_Head(s, at) ==
    IF at > Len(s) \/ ~is_char_boundary(s, at) THEN Panicked
    ELSE Done(SliceTo(s, at))

\* String::split_off(at): the tail from byte `at`; panics off a boundary
split_off(s, at) ==
    IF at > Len(s) \/ ~is_char_boundary(s, at) THEN Panicked
    ELSE Done(SliceFrom(s, at))

CountNewlines(s) == Cardinality({i \in 1..Len(s) : s[i] = NL})

\* str::lines().count(), as the tests measure a document's line count
lines_count(s) ==
    IF s = <<>> THEN 0
    ELSE IF s[Len(s)] = NL THEN CountNewlines(s)
    ELSE CountNewlines(s) + 1

-----------------------------------------------------------------------------
(* line_number.rs *)

\* from_index counting lines from 1
from_index_OneBased(raw_file_contents, idx) ==
    LET safe_index == Min(idx, Len(raw_file_contents))
    IN  IF ~is_char_boundary(raw_file_contents, safe_index) THEN Panicked
        ELSE Done(AsU32(CountNewlines(SliceTo(raw_file_contents, safe_index)))
                  + 1)

\* &raw_file_contents[..safe_index] panics when safe_index splits a character
from_index(raw_file_contents, idx) ==
    LET safe_index == Min(idx, Len(raw_file_contents))
    IN  IF ~is_char_boundary(raw_file_contents, safe_index) THEN Panicked
        ELSE Done(AsU32(CountNewlines(SliceTo(raw_file_contents, safe_index))))

-----------------------------------------------------------------------------
(* pointer_index.rs *)

\* the loop body with `index_summation = temp_index` for `+=`
calculate_step_Assign(st, path_item) ==
    IF st.panic THEN Panicked
    ELSE LET temp_index == unwrap_or(find(st.v.stacked_file_contents, path_item), 0)
             rest == split_off(st.v.stacked_file_contents, temp_index)
         IN  IF rest.panic THEN Panicked
             ELSE Done([stacked_file_contents |-> rest.v,
                        index_summation |-> temp_index])

\* the loop body dropping the match as well as what precedes it
calculate_step_ConsumeMatch(st, path_item) ==
    IF st.panic THEN Panicked
    ELSE LET temp_index == unwrap_or(find(st.v.stacked_file_contents, path_item), 0)
             rest == split_off(st.v.stacked_file_contents,
                               temp_index + Len(path_item))
         IN  IF rest.panic THEN Panicked
             ELSE Done([stacked_file_contents |-> rest.v,
                        index_summation |-> st.v.index_summation + temp_index])

\* the loop body with unwrap_or(len): an item not found skips to the end
calculate_step_NotFoundToEnd(st, path_item) ==
    IF st.panic THEN Panicked
    ELSE LET temp_index == unwrap_or(find(st.v.stacked_file_contents, path_item),
                                     Len(st.v.stacked_file_contents))
             rest == split_off(st.v.stacked_file_contents, temp_index)
         IN  IF rest.panic THEN Panicked
             ELSE Done([stacked_file_contents |-> rest.v,
                        index_summation |-> st.v.index_summation + temp_index])

\* One iteration of the loop over path_items; st is the loop state
calculate_step(st, path_item) ==
    IF st.panic THEN Panicked
    ELSE LET temp_index == unwrap_or(find(st.v.stacked_file_contents, path_item), 0)
             rest == split_off(st.v.stacked_file_contents, temp_index)
         IN  IF rest.panic THEN Panicked
             ELSE Done([stacked_file_contents |-> rest.v,
                        index_summation |-> st.v.index_summation + temp_index])

RECURSIVE calculate_loop(_, _)
calculate_loop(st, path_items) ==
    IF path_items = <<>> THEN st
    ELSE calculate_loop(calculate_step(st, Head(path_items)), Tail(path_items))

\* The loop states one after the other: before the first item, then after
\* each item
RECURSIVE calculate_trace(_, _)
calculate_trace(st, path_items) ==
    IF path_items = <<>> THEN <<st>>
    ELSE <<st>> \o calculate_trace(calculate_step(st, Head(path_items)),
                                   Tail(path_items))

\* pointer_index.rs:6-9: the states of the loop over the pointer's items
calculate_states(ptr, raw_file_contents) ==
    calculate_trace(Done([stacked_file_contents |-> raw_file_contents,
                          index_summation |-> 0]),
                    split(ptr, SLASH))

\* The loop state after all of the pointer's items
calculate_state(ptr, raw_file_contents) ==
    calculate_loop(Done([stacked_file_contents |-> raw_file_contents,
                         index_summation |-> 0]),
                   split(ptr, SLASH))

\* pointer_index.rs:39: the loop's index_summation is the result
Summation(st) == IF st.panic THEN Panicked ELSE Done(st.v.index_summation)

calculate(ptr, raw_file_contents) ==
    Summation(calculate_state(ptr, raw_file_contents))

-----------------------------------------------------------------------------
(* json_pointer.rs, diagnostic_range.rs *)

Position(l, c) == [line |-> l, character |-> c]
Range(s, e) == [start |-> s, end |-> e]
RangeDefault == Range(Position(0, 0), Position(0, 0))

\* json_pointer.rs:47-56: the zero-width range on the line found
RangeOnLine(line_number) ==
    IF line_number.panic THEN Panicked
    ELSE Done(Some(Range(Position(line_number.v, 0),
                         Position(line_number.v, 0))))

\* json_pointer.rs:41: the line of the index calculate returned
LineOf(raw_file_contents, index_summation) ==
    IF index_summation.panic THEN Panicked
    ELSE from_index(raw_file_contents, index_summation.v)

\* into_range giving None when calculate found nothing (offset 0)
into_range_NoneAtZero(ptr, raw_file_contents) ==
    IF calculate(ptr, raw_file_contents) = Done(0) THEN Done(None)
    ELSE RangeOnLine(LineOf(raw_file_contents,
                            calculate(ptr, raw_file_contents)))

into_range(ptr, raw_file_contents) ==
    RangeOnLine(LineOf(raw_file_contents, calculate(ptr, raw_file_contents)))

\* diagnostic_range.rs:9-25: the match on what into_range returned
MatchRange(r) ==
    IF r.panic THEN Panicked
    ELSE IF r.v.some THEN Done(r.v.v)
    ELSE Done(RangeDefault)

from_pointer(ptr, contents) == MatchRange(into_range(ptr, contents))

-----------------------------------------------------------------------------
(* serde_json::from_str::<Value>, as parsing.rs:51 calls it.                *)
(* The reader is serde_json's SliceRead over the document's bytes; i is its *)
(* index (bytes consumed).  Documents of the model hold no backslash and no *)
(* '.', 'e', 'E' after a digit, and nest far less than the recursion limit. *)

Whitespace == {" ", NL, "\t", "\r"}
Digits == {"0", "1", "2", "3", "4", "5", "6", "7", "8", "9"}
ControlBytes == {NL, "\t", "\r"}
DigitVal(c) ==
    CASE c = "0" -> 0 [] c = "1" -> 1 [] c = "2" -> 2 [] c = "3" -> 3
      [] c = "4" -> 4 [] c = "5" -> 5 [] c = "6" -> 6 [] c = "7" -> 7
      [] c = "8" -> 8 [] c = "9" -> 9

JNull == [t |-> "null"]
JBool(b) == [t |-> "boolean", bool |-> b]
JNumber(n) == [t |-> "number", num |-> n]
JString(str) == [t |-> "string", str |-> str]
JArray(items) == [t |-> "array", items |-> items]
JObject(map) == [t |-> "object", members |-> map]
\* serde_json::Map: one value per key, a later duplicate replaces an earlier
EmptyMap == <<>>
MapInsert(map, k, val) == (k :> val) @@ map

\* SliceRead::position_of_index: 1-based line, column = bytes since the
\* last newline before index at
position_of_index(s, at) ==
    LET nls == {k \in 1..at : s[k] = NL}
        start_of_line == IF nls = {} THEN 0
                         ELSE CHOOSE k \in nls : \A j \in nls : j <= k
    IN  [line |-> 1 + Cardinality(nls), column |-> at - start_of_line]

SyntaxError(code, pos) ==
    [ok |-> FALSE, code |-> code, line |-> pos.line, column |-> pos.column]
\* Deserializer::error: at the reader's position
error(s, i, code) == SyntaxError(code, position_of_index(s, i))
\* Deserializer::peek_error: one byte further, capped at the length
peek_error(s, i, code) ==
    SyntaxError(code, position_of_index(s, Min(Len(s), i + 1)))
Parsed(val, i) == [ok |-> TRUE, value |-> val, idx |-> i]

RECURSIVE parse_whitespace(_, _)
parse_whitespace(s, i) ==
    IF i < Len(s) /\ s[i + 1] \in Whitespace THEN parse_whitespace(s, i + 1)
    ELSE i

\* Deserializer::parse_ident, after the first letter was eaten
RECURSIVE parse_ident(_, _, _, _)
parse_ident(s, i, ident, val) ==
    IF ident = <<>> THEN Parsed(val, i)
    ELSE IF i >= Len(s) THEN error(s, i, "EofWhileParsingValue")
    ELSE IF s[i + 1] # Head(ident) THEN error(s, i + 1, "ExpectedSomeIdent")
    ELSE parse_ident(s, i + 1, Tail(ident), val)

RECURSIVE parse_digits(_, _, _)
parse_digits(s, i, significand) ==
    IF i < Len(s) /\ s[i + 1] \in Digits
    THEN parse_digits(s, i + 1, significand * 10 + DigitVal(s[i + 1]))
    ELSE Parsed(significand, i)

\* the number a run of digits ends in
Signed(positive, r) ==
    Parsed(JNumber(IF positive THEN r.value ELSE 0 - r.value), r.idx)

\* Deserializer::parse_integer
parse_integer(s, i, positive) ==
    IF i >= Len(s) THEN error(s, i, "EofWhileParsingValue")
    ELSE IF s[i + 1] = "0"
    THEN IF i + 1 < Len(s) /\ s[i + 2] \in Digits
         THEN peek_error(s, i + 1, "InvalidNumber")
         ELSE Parsed(JNumber(0), i + 1)
    ELSE IF s[i + 1] \in Digits
    THEN Signed(positive, parse_digits(s, i + 1, DigitVal(s[i + 1])))
    ELSE error(s, i + 1, "InvalidNumber")

\* SliceRead::parse_str, after the opening quote was eaten
RECURSIVE parse_str(_, _, _)
parse_str(s, i, acc) ==
    IF i >= Len(s) THEN error(s, i, "EofWhileParsingString")
    ELSE IF s[i + 1] = QUOTE THEN Parsed(acc, i + 1)
    ELSE IF s[i + 1] \in ControlBytes
    THEN error(s, i + 1, "ControlCharacterWhileParsingString")
    ELSE parse_str(s, i + 1, Append(acc, s[i + 1]))

\* SeqAccess::next_element_seed's has_next_element with the reader at i,
\* past whitespace: where the next element starts, or the closing bracket
has_next_element(s, i, first) ==
    IF i >= Len(s) THEN peek_error(s, i, "EofWhileParsingList")
    ELSE IF s[i + 1] = "]" THEN Parsed("end", i)
    ELSE IF first THEN Parsed("more", i)
    ELSE IF s[i + 1] # "," THEN peek_error(s, i, "ExpectedListCommaOrEnd")
    ELSE IF parse_whitespace(s, i + 1) >= Len(s)
    THEN peek_error(s, parse_whitespace(s, i + 1), "EofWhileParsingValue")
    ELSE IF s[parse_whitespace(s, i + 1) + 1] = "]"
    THEN peek_error(s, parse_whitespace(s, i + 1), "TrailingComma")
    ELSE Parsed("more", parse_whitespace(s, i + 1))

\* MapAccess::next_key_seed's has_next_key with the reader at i, past
\* whitespace: where the next key's quote is, or the closing brace
has_next_key(s, i, first) ==
    IF i >= Len(s) THEN peek_error(s, i, "EofWhileParsingObject")
    ELSE IF s[i + 1] = "}" THEN Parsed("end", i)
    ELSE IF first
    THEN IF s[i + 1] = QUOTE THEN Parsed("more", i)
         ELSE peek_error(s, i, "KeyMustBeAString")
    ELSE IF s[i + 1] # "," THEN peek_error(s, i, "ExpectedObjectCommaOrEnd")
    ELSE IF parse_whitespace(s, i + 1) >= Len(s)
    THEN peek_error(s, parse_whitespace(s, i + 1), "EofWhileParsingValue")
    ELSE IF s[parse_whitespace(s, i + 1) + 1] = "}"
    THEN peek_error(s, parse_whitespace(s, i + 1), "TrailingComma")
    ELSE IF s[parse_whitespace(s, i + 1) + 1] # QUOTE
    THEN peek_error(s, parse_whitespace(s, i + 1), "KeyMustBeAString")
    ELSE Parsed("more", parse_whitespace(s, i + 1))

\* Deserializer::parse_object_colon with the reader at i, past whitespace
parse_object_colon(s, i) ==
    IF i >= Len(s) THEN peek_error(s, i, "EofWhileParsingObject")
    ELSE IF s[i + 1] # ":" THEN peek_error(s, i, "ExpectedColon")
    ELSE Parsed("colon", i + 1)

RECURSIVE deserialize_any(_, _)
RECURSIVE visit_seq(_, _, _, _)
RECURSIVE visit_map(_, _, _, _)

\* the element r joins the Vec and the loop goes on; its error ends it
seq_push(s, r, acc) ==
    IF r.ok THEN visit_seq(s, r.idx, FALSE, Append(acc, r.value)) ELSE r

seq_element(s, more, acc) ==
    IF ~more.ok THEN more
    ELSE IF more.value = "end" THEN Parsed(acc, more.idx)
    ELSE seq_push(s, deserialize_any(s, more.idx), acc)

\* the Value visitor's visit_seq: next_element until the closing bracket,
\* on which the reader is left
visit_seq(s, i, first, acc) ==
    seq_element(s, has_next_element(s, parse_whitespace(s, i), first), acc)

\* the entry (key, val) joins the Map and the loop goes on
map_insert(s, key, val, acc) ==
    IF val.ok THEN visit_map(s, val.idx, FALSE, MapInsert(acc, key.value, val.value))
    ELSE val

\* MapAccess::next_value_seed: the colon, then the value
next_value(s, colon) ==
    IF colon.ok THEN deserialize_any(s, colon.idx) ELSE colon

map_value(s, key, acc) ==
    IF ~key.ok THEN key
    ELSE map_insert(s, key,
                    next_value(s, parse_object_colon(s, parse_whitespace(s, key.idx))),
                    acc)

map_entry(s, more, acc) ==
    IF ~more.ok THEN more
    ELSE IF more.value = "end" THEN Parsed(acc, more.idx)
    ELSE map_value(s, parse_str(s, more.idx + 1, <<>>), acc)

\* the Value visitor's visit_map: next_entry until the closing brace, on
\* which the reader is left
visit_map(s, i, first, acc) ==
    map_entry(s, has_next_key(s, parse_whitespace(s, i), first), acc)

\* the string, array or object a finished parse makes; end_seq and end_map
\* eat the closing bracket the visitor stopped on
string_value(r) == IF r.ok THEN Parsed(JString(r.value), r.idx) ELSE r
end_seq(r) == IF r.ok THEN Parsed(JArray(r.value), r.idx + 1) ELSE r
end_map(r) == IF r.ok THEN Parsed(JObject(r.value), r.idx + 1) ELSE r

\* Deserializer::deserialize_any with the reader at i, past whitespace
value_at(s, i) ==
    IF i >= Len(s) THEN peek_error(s, i, "EofWhileParsingValue")
    ELSE CASE s[i + 1] = "n" ->
                 parse_ident(s, i + 1, <<"u", "l", "l">>, JNull)
           [] s[i + 1] = "t" ->
                 parse_ident(s, i + 1, <<"r", "u", "e">>, JBool(TRUE))
           [] s[i + 1] = "f" ->
                 parse_ident(s, i + 1, <<"a", "l", "s", "e">>, JBool(FALSE))
           [] s[i + 1] = "-" -> parse_integer(s, i + 1, FALSE)
           [] s[i + 1] \in Digits -> parse_integer(s, i, TRUE)
           [] s[i + 1] = QUOTE -> string_value(parse_str(s, i + 1, <<>>))
           [] s[i + 1] = "[" -> end_seq(visit_seq(s, i + 1, TRUE, <<>>))
           [] s[i + 1] = "{" -> end_map(visit_map(s, i + 1, TRUE, EmptyMap))
           [] OTHER -> peek_error(s, i, "ExpectedSomeValue")

deserialize_any(s, i) == value_at(s, parse_whitespace(s, i))

\* Deserializer::end: only whitespace may follow the value
end(s, r) ==
    IF ~r.ok THEN r
    ELSE IF parse_whitespace(s, r.idx) < Len(s)
    THEN peek_error(s, parse_whitespace(s, r.idx), "TrailingCharacters")
    ELSE r

\* serde_json::from_str: one value, then Deserializer::end
from_str(s) == end(s, deserialize_any(s, 0))

-----------------------------------------------------------------------------
(* jsonschema::validator_for and Validator::iter_errors, as validation.rs  *)
(* calls them, for schemas built of "type", "properties" and "required".   *)
(* A schema is a serde_json::Value object: its keywords are visited in key *)
(* order (properties, required, type), and so are the members of           *)
(* "properties".  Keys hold no '~' and no '/', so a path needs no escape.  *)

KeyA == <<"a">>
KeyService == <<"s", "e", "r", "v", "i", "c", "e">>
KeyVersion == <<"v", "e", "r", "s", "i", "o", "n">>
KeyRuntime == <<"r", "u", "n", "t", "i", "m", "e">>
KeyType == <<"t", "y", "p", "e">>
PtrRuntimeType == <<SLASH, "r", "u", "n", "t", "i", "m", "e", SLASH, "t", "y", "p", "e">>
PtrVersion == <<SLASH, "v", "e", "r", "s", "i", "o", "n">>
PtrSlashA == <<SLASH, "a", SLASH, "a">>
PtrMultiByte == <<SLASH, LeadByte, ContByte>>

\* type: None when the keyword is absent, else Some(the keyword's JSON value)
SchemaNode(type, properties, required) ==
    [type |-> type, properties |-> properties, required |-> required]
\* a JSON string that names a type
JTypeName(name) == [t |-> "string", name |-> name]
TypeOnly(name) == SchemaNode(Some(JTypeName(name)), <<>>, <<>>)

\* {}: every document satisfies it
SchemaAny == SchemaNode(None, <<>>, <<>>)
\* TestSchema::minimal (lib.rs:107-118)
SchemaMinimal ==
    SchemaNode(Some(JTypeName("object")),
               << <<KeyService, TypeOnly("string")>>,
                  <<KeyVersion, TypeOnly("string")>> >>,
               <<KeyService>>)
\* an object that must hold a string member a
SchemaA ==
    SchemaNode(Some(JTypeName("object")),
               << <<KeyA, TypeOnly("string")>> >>, <<KeyA>>)
\* runtime.type must be a string
SchemaNested ==
    SchemaNode(None,
               << <<KeyRuntime,
                    SchemaNode(None, << <<KeyType, TypeOnly("string")>> >>, <<>>)>> >>,
               <<>>)
\* {"type": 5}: not a schema, validator_for refuses it
SchemaTypeFive == SchemaNode(Some(JNumber(5)), <<>>, <<>>)
\* {"properties": {"a": {"type": "strng"}}}: an unknown type name, nested
SchemaUnknownType ==
    SchemaNode(None, << <<KeyA, TypeOnly("strng")>> >>, <<>>)

Schemas ==
    {SchemaAny, SchemaMinimal, SchemaA, SchemaNested, SchemaTypeFive,
     SchemaUnknownType}

TypeNames ==
    {"null", "boolean", "number", "integer", "string", "array", "object"}

\* jsonschema::validator_for(schema).is_ok()
RECURSIVE validator_for_ok(_)
validator_for_ok(schema) ==
    /\ schema.type.some =>
          (schema.type.v.t = "string" /\ schema.type.v.name \in TypeNames)
    /\ \A k \in 1..Len(schema.properties) :
          validator_for_ok(schema.properties[k][2])

\* every number of the model is integral
MatchesType(name, instance) ==
    IF name = "integer" THEN instance.t = "number" ELSE instance.t = name

\* what jsonschema::ValidationError holds: where, and which constraint
Required(property) == [keyword |-> "required", property |-> property]
Type(expected) == [keyword |-> "type", expected |-> expected]
ValidationError(path, kind) == [instance_path |-> path, kind |-> kind]

RECURSIVE FlatMap(_, _, _, _)
RECURSIVE iter_errors(_, _, _)

\* the errors of the members of "properties", in their order
FlatMap(properties, k, instance, path) ==
    IF k > Len(properties) THEN <<>>
    ELSE LET name == properties[k][1]
             here == IF name \in DOMAIN instance.members
                     THEN iter_errors(properties[k][2], instance.members[name],
                                      path \o <<SLASH>> \o name)
                     ELSE <<>>
         IN  here \o FlatMap(properties, k + 1, instance, path)

\* Validator::iter_errors(instance): every violation, not only the first
iter_errors(schema, instance, path) ==
    LET of_properties ==
            IF instance.t = "object"
            THEN FlatMap(schema.properties, 1, instance, path)
            ELSE <<>>
        missing ==
            IF instance.t = "object"
            THEN SelectSeq(schema.required, LAMBDA k : k \notin DOMAIN instance.members)
            ELSE <<>>
        of_required ==
            [k \in 1..Len(missing) |->
                ValidationError(path, Required(missing[k]))]
        of_type ==
            IF schema.type.some /\ ~MatchesType(schema.type.v.name, instance)
            THEN <<ValidationError(path, Type(schema.type.v.name))>>
            ELSE <<>>
    IN  of_properties \o of_required \o of_type

-----------------------------------------------------------------------------
(* parsing.rs: ParsedContent, ParseErrorDiagnostic *)

Diagnostic(range, message, source) ==
    [range |-> range, severity |-> Some("ERROR"), message |-> message,
     source |-> source]

\* From<serde_json::Error> for ParseErrorDiagnostic (parsing.rs:73-91);
\* the message is the error's Display: its code, line and column
ZeroBased(err, line) ==
    IF line.panic THEN Panicked
    ELSE Done([line |-> line.v, column |-> AsU32(err.column),
               message |-> <<err.code, err.line, err.column>>])

\* the conversion keeping the parser's 1-based line
ParseErrorDiagnostic_from_LineKept(err) == ZeroBased(err, Done(AsU32(err.line)))

\* the conversion making the column 0-based with a plain `- 1`, which
\* overflows at column 0
ParseErrorDiagnostic_from_ColumnMinusOne(err) ==
    IF err.column = 0 THEN Panicked
    ELSE Done([line |-> err.line - 1, column |-> err.column - 1,
               message |-> <<err.code, err.line, err.column>>])

ParseErrorDiagnostic_from(err) == ZeroBased(err, U32Sub(AsU32(err.line), 1))

\* the conversion keeping the parser's 1-based column as the end character
Diagnostic_from_parse_ColumnKept(diag) ==
    Diagnostic(Range(Position(diag.line, 0), Position(diag.line, diag.column)),
               diag.message, None)

\* From<ParseErrorDiagnostic> for Diagnostic (parsing.rs:93-114)
Diagnostic_from_parse(diag) ==
    Diagnostic(Range(Position(diag.line, 0),
                     Position(diag.line, saturating_sub(diag.column, 1))),
               diag.message, None)

\* ParsedContent::new(file_contents) given what serde_json returned
IntoDiagnostic(d) ==
    IF d.panic THEN Panicked
    ELSE Done([tag |-> "ParseError", diagnostic |-> Diagnostic_from_parse(d.v)])

ParsedContent_new(r) ==
    IF r.ok THEN Done([tag |-> "Valid", json |-> r.value])
    ELSE IntoDiagnostic(ParseErrorDiagnostic_from(r))

-----------------------------------------------------------------------------
(* validation.rs: ValidationDiagnostic, SchemaValidator::validate *)

\* ValidationDiagnostic::new (validation.rs:73-93)
WithRange(err, range) ==
    IF range.panic THEN Panicked
    ELSE Done([instance_path |-> err.instance_path,
               error_message |-> err.kind,
               range |-> range.v])

ValidationDiagnostic_new(err, contents) ==
    WithRange(err, from_pointer(err.instance_path, contents))

\* the conversion leaving the diagnostic's source out
Diagnostic_from_validation_NoSource(diag) ==
    Diagnostic(diag.range,
               <<"Path ", diag.instance_path, ", Error: ", diag.error_message>>,
               None)

\* From<ValidationDiagnostic> for Diagnostic (validation.rs:96-106)
Diagnostic_from_validation(diag) ==
    Diagnostic(diag.range,
               <<"Path ", diag.instance_path, ", Error: ", diag.error_message>>,
               Some(diag.instance_path))

\* validation_errors.into_iter().map(..).collect() (validation.rs:54-58)
Collect(made) ==
    IF \E k \in 1..Len(made) : made[k].panic THEN Panicked
    ELSE Done([k \in 1..Len(made) |-> Diagnostic_from_validation(made[k].v)])

\* the mapping with a summary diagnostic put in front of the list
MapDiagnostics_WithSummary(errors, contents) ==
    Collect(<<Done([instance_path |-> <<>>, error_message |-> Len(errors),
                    range |-> RangeDefault])>>
            \o [k \in 1..Len(errors) |->
                   ValidationDiagnostic_new(errors[k], contents)])

\* the mapping stopping at the first error
MapDiagnostics_FirstOnly(errors, contents) ==
    Collect([k \in 1..Min(1, Len(errors)) |->
                ValidationDiagnostic_new(errors[k], contents)])

MapDiagnostics(errors, contents) ==
    Collect([k \in 1..Len(errors) |->
                ValidationDiagnostic_new(errors[k], contents)])

-----------------------------------------------------------------------------
(* The documents and pointers of the model *)

\* an object whose member a is a number
DocA1 ==
    <<"{", QUOTE, "a", QUOTE, ":", "1", "}">>

\* an object whose member a is a string
DocAString ==
    <<"{", QUOTE, "a", QUOTE, ":", QUOTE, "a", QUOTE, "}">>

\* the same over three lines
DocALines ==
    <<"{", NL, QUOTE, "a", QUOTE, ":", "1", NL, "}">>

\* a valid document ending in a newline
DocATrailingNewline ==
    <<"{", QUOTE, "a", QUOTE, ":", "1", "}", NL>>

\* lib.rs:248
DocNull ==
    <<"n", "u", "l", "l">>

\* lib.rs:248
DocEmptyArray ==
    <<"[", "]">>

\* lib.rs:248
DocKeyNoValue ==
    <<"{", QUOTE, "k", "e", "y", QUOTE, ":", " ", "}">>

\* a missing comma on the third line, as INVALID_JSON_SYNTAX (lib.rs:73-79)
DocMissingComma ==
    <<"{", NL, QUOTE, "a", QUOTE, ":", QUOTE, "a", QUOTE, NL, QUOTE, "b",
      QUOTE, ":", "1", NL, "}">>

\* satisfies the minimal schema (lib.rs:107-118)
DocService ==
    <<"{", QUOTE, "s", "e", "r", "v", "i", "c", "e", QUOTE, ":", QUOTE,
      "a", "p", "i", QUOTE, "}">>

\* violates the minimal schema twice
DocVersionOnly ==
    <<"{", NL, QUOTE, "v", "e", "r", "s", "i", "o", "n", QUOTE, ":", "1",
      NL, "}">>

\* two-level nesting over five lines
DocNested ==
    <<"{", NL, " ", " ", QUOTE, "r", "u", "n", "t", "i", "m", "e", QUOTE,
      ":", " ", "{", NL, " ", " ", " ", " ", QUOTE, "t", "y", "p", "e",
      QUOTE, ":", " ", "5", NL, " ", " ", "}", NL, "}">>

\* a two-byte character before the member a
DocMultiByte ==
    <<"{", QUOTE, "C3", "A9", QUOTE, ":", "1", ",", NL, QUOTE, "a", QUOTE,
      ":", "1", "}">>

\* trailing characters on the second line
DocTrailingBrace ==
    <<"{", "}", NL, "}">>

\* the text of the key 1 inside a string value, a line before the key
DocValueBeforeKey ==
    <<"{", QUOTE, "a", QUOTE, ":", QUOTE, "1", QUOTE, ",", NL, QUOTE, "1",
      QUOTE, ":", "1", "}">>

\* the key a nested in the member a, on the second line
DocNestedSame ==
    <<"{", QUOTE, "a", QUOTE, ":", "{", NL, QUOTE, "a", QUOTE, ":", "1",
      "}", "}">>

Documents ==
    {DocA1, DocAString, DocALines, DocATrailingNewline,
     DocNull, DocEmptyArray, DocKeyNoValue, DocMissingComma,
     DocService, DocVersionOnly, DocNested, DocMultiByte,
     DocTrailingBrace, DocValueBeforeKey, DocNestedSame}

\* the bytes short documents are made of; ContByte only after LeadByte
TextBytes == {"{", "}", QUOTE, "a", "1", NL, LeadByte, ContByte}
PointerBytes == {SLASH, "a", "1"}

StringsUpTo(bytes, n) ==
    {s \in UNION {[1..k -> bytes] : k \in 0..n} : IsUtf8(s)}

\* every short &str, and the documents above
Texts == StringsUpTo(TextBytes, MaxLen) \cup Documents
Pointers ==
    StringsUpTo(PointerBytes, MaxPtrLen) \cup {PtrRuntimeType, PtrVersion, PtrSlashA,
                                              PtrMultiByte}

-----------------------------------------------------------------------------
(* The state machine: one document; validate_liberally and the helpers    *)
(* are called on it.                                                       *)

Unset == [tag |-> "Unset"]
Ok(diagnostics) == [tag |-> "Ok", diagnostics |-> diagnostics]

\* main.rs:108: the one key on_change asks for, and another
Keys == {"service.schema", "other.schema"}

\* main.rs:173: JsonSchemas::default(): the map starts empty; no task is
\* in a call
CacheEmpty ==
    /\ json_schemas = EmptyMap
    /\ rw_lock = [readers |-> {}, writers |-> {}]
    /\ task = [t \in 1..NumTasks |->
                  [at |-> "idle", key |-> "", calls |-> 0, ret |-> Unset]]
    /\ loads = [k \in Keys |-> 0]

\* the documents the editor has open
Uris == {"file:///a.json", "file:///b.json"}

\* no validate_liberally call, no helper call yet, nothing published
NotCalled ==
    /\ json_schema = Unset
    /\ pc = "idle"
    /\ serde_result = Unset
    /\ parsed = Unset
    /\ validation_errors = <<>>
    /\ result = Unset
    /\ json_pointer = <<>>
    /\ index = 0
    /\ helper_out = Unset
    /\ change = Unset
    /\ client = [uri \in Uris |-> Unset]

Init ==
    /\ file_contents \in Texts
    /\ NotCalled
    /\ CacheEmpty
    /\ schema_parses = TRUE

\* where ParsedContent::new leaves the call
Parse(content) ==
    IF content.panic THEN parsed' = parsed /\ pc' = "panicked"
    ELSE parsed' = content.v /\ pc' = "parsed"

\* parsing.rs:51-62: the match on what serde_json returned
Parsing(r) ==
    /\ serde_result' = r
    /\ Parse(ParsedContent_new(r))

\* validate_liberally(schema, file_contents), lib.rs:29: ParsedContent::new
ValidateLiberally(schema) ==
    /\ UNCHANGED <<cache_vars, client_vars>>
    /\ pc = "idle"
    /\ json_schema' = schema
    /\ Parsing(from_str(file_contents))
    /\ UNCHANGED <<file_contents, validation_errors, result, json_pointer,
                   index, helper_out>>

\* lib.rs:36-43: the parse diagnostic is the whole result
ReturnParseDiagnostic ==
    /\ UNCHANGED <<cache_vars, client_vars>>
    /\ pc = "parsed"
    /\ parsed.tag = "ParseError"
    /\ result' = Ok(<<parsed.diagnostic>>)
    /\ pc' = "returned"
    /\ UNCHANGED <<file_contents, json_schema, serde_result, parsed,
                   validation_errors, json_pointer, index, helper_out>>

\* where SchemaValidator::validate leaves the call
Return(diagnostics) ==
    IF diagnostics.panic THEN result' = result /\ pc' = "panicked"
    ELSE result' = Ok(diagnostics.v) /\ pc' = "returned"

\* validation.rs:43-60: the errors collected, then mapped to diagnostics
Collected(errors) ==
    /\ validation_errors' = errors
    /\ Return(MapDiagnostics(errors, file_contents))

\* lib.rs:32-35, validation.rs:27-61 with a schema validator_for accepts
SchemaValidatorValidate ==
    /\ UNCHANGED <<cache_vars, client_vars>>
    /\ pc = "parsed"
    /\ parsed.tag = "Valid"
    /\ validator_for_ok(json_schema)
    /\ Collected(iter_errors(json_schema, parsed.json, <<>>))
    /\ UNCHANGED <<file_contents, json_schema, serde_result, parsed,
                   json_pointer, index, helper_out>>

\* the schema compiled before the match on the parse: .expect(..) reached
\* whatever the document parsed to
SchemaValidatorExpectPanics_BeforeMatch ==
    /\ UNCHANGED <<cache_vars, client_vars>>
    /\ pc = "parsed"
    /\ ~validator_for_ok(json_schema)
    /\ pc' = "panicked"
    /\ UNCHANGED <<file_contents, json_schema, serde_result, parsed,
                   validation_errors, result, json_pointer, index, helper_out>>

\* validation.rs:32-33: .expect(..) on a schema validator_for refuses
SchemaValidatorExpectPanics ==
    /\ UNCHANGED <<cache_vars, client_vars>>
    /\ pc = "parsed"
    /\ parsed.tag = "Valid"
    /\ ~validator_for_ok(json_schema)
    /\ pc' = "panicked"
    /\ UNCHANGED <<file_contents, json_schema, serde_result, parsed,
                   validation_errors, result, json_pointer, index, helper_out>>

\* line_number::from_index(file_contents, idx)
FromIndexCall(idx) ==
    /\ UNCHANGED <<cache_vars, client_vars>>
    /\ pc = "idle"
    /\ index' = idx
    /\ helper_out' = from_index(file_contents, idx)
    /\ pc' = "from_index"
    /\ UNCHANGED <<file_contents, json_schema, serde_result, parsed,
                   validation_errors, result, json_pointer>>

\* diagnostic_range::from_pointer(ptr, file_contents); the values it passes
\* through on its way (json_pointer.rs:32, :41, diagnostic_range.rs:9)
FromPointerCall(ptr) ==
    /\ UNCHANGED <<cache_vars, client_vars>>
    /\ pc = "idle"
    /\ json_pointer' = ptr
    /\ helper_out' = [loop |-> calculate_states(ptr, file_contents),
                      index_summation |-> calculate(ptr, file_contents),
                      into_range |-> into_range(ptr, file_contents),
                      range |-> from_pointer(ptr, file_contents)]
    /\ pc' = "from_pointer"
    /\ UNCHANGED <<file_contents, json_schema, serde_result, parsed,
                   validation_errors, result, index>>

Next ==
    \/ \E schema \in Schemas : ValidateLiberally(schema)
    \/ ReturnParseDiagnostic
    \/ SchemaValidatorValidate
    \/ SchemaValidatorExpectPanics
    \/ \E idx \in 0..(Len(file_contents) + 1) : FromIndexCall(idx)
    \/ \E ptr \in Pointers : FromPointerCall(ptr)

Spec == Init /\ [][Next]_vars

-----------------------------------------------------------------------------
(* main.rs: Backend::get_or_load_schema, called by concurrent tasks.  The   *)
(* calls interleave at their await points: read().await and write().await. *)

Tasks == 1..NumTasks

\* what a task's call becomes
At(t, at, ret) == [task EXCEPT ![t].at = at, ![t].ret = ret]

\* main.rs:108, :137: a task calls get_or_load_schema(key)
GetOrLoadSchema(t, key) ==
    /\ task[t].at \in {"idle", "done"}
    /\ task[t].calls < MaxCalls
    /\ task' = [task EXCEPT ![t] = [at |-> "read", key |-> key,
                                    calls |-> @.calls + 1, ret |-> Unset]]
    /\ UNCHANGED <<json_schemas, rw_lock, loads, schema_parses, pipeline_vars, client_vars>>

\* main.rs:140: json_schemas.read().await is granted while no task writes
ReadLock(t) ==
    /\ task[t].at = "read"
    /\ rw_lock.writers = {}
    /\ rw_lock' = [rw_lock EXCEPT !.readers = @ \cup {t}]
    /\ task' = At(t, "get", Unset)
    /\ UNCHANGED <<json_schemas, loads, schema_parses, pipeline_vars, client_vars>>

\* main.rs:141-144: the key is there: return a clone of the Arc, drop the
\* read guard
GetHit(t) ==
    /\ task[t].at = "get"
    /\ task[t].key \in DOMAIN json_schemas
    /\ rw_lock' = [rw_lock EXCEPT !.readers = @ \ {t}]
    /\ task' = At(t, "done", [tag |-> "Ok", arc |-> json_schemas[task[t].key]])
    /\ UNCHANGED <<json_schemas, loads, schema_parses, pipeline_vars, client_vars>>

\* main.rs:141-145: the key is not there: drop the read guard and go on
GetMiss(t) ==
    /\ task[t].at = "get"
    /\ task[t].key \notin DOMAIN json_schemas
    /\ rw_lock' = [rw_lock EXCEPT !.readers = @ \ {t}]
    /\ task' = At(t, "from_str", Unset)
    /\ UNCHANGED <<json_schemas, loads, schema_parses, pipeline_vars, client_vars>>

\* main.rs:152: serde_json::from_str(SERVICE_SCHEMA)?; the schema it builds
\* is this call's own, and `?` returns the error of a text that is no JSON
FromStrSchema(t) ==
    /\ task[t].at = "from_str"
    /\ loads' = [loads EXCEPT ![task[t].key] = @ + 1]
    /\ task' = IF schema_parses THEN At(t, "write", Unset)
               ELSE At(t, "done", [tag |-> "Err"])
    /\ UNCHANGED <<json_schemas, rw_lock, schema_parses, pipeline_vars, client_vars>>

\* main.rs:155: json_schemas.write().await is granted while no task holds
\* the lock
WriteLock(t) ==
    /\ task[t].at = "write"
    /\ rw_lock.readers = {}
    /\ rw_lock.writers = {}
    /\ rw_lock' = [rw_lock EXCEPT !.writers = {t}]
    /\ task' = At(t, "entry", Unset)
    /\ UNCHANGED <<json_schemas, loads, schema_parses, pipeline_vars, client_vars>>

\* main.rs:152-160: an Arc a call makes of the schema it parsed: whose it is,
\* which of the call's two it is, and the value it holds; every call parses
\* the one embedded text, whatever its key
Arc(t, which) == [by |-> t, arc |-> which, value |-> "SERVICE_SCHEMA"]

\* or_insert leaving the value out of the map
or_insert_Dropped(map, key, value) == map

\* HashMap::insert(key, value): the value replaces the one that is there
insert(map, key, value) == MapInsert(map, key, value)

\* HashMap::entry(key).or_insert(value): the value goes in only when the key
\* is vacant
or_insert(map, key, value) ==
    IF key \in DOMAIN map THEN map ELSE MapInsert(map, key, value)

\* main.rs:156-160: or_insert an Arc of a clone, return Ok(Arc::new(schema)),
\* a second Arc of this call's schema; the write guard drops on return
OrInsertAndReturn(t) ==
    /\ task[t].at = "entry"
    /\ json_schemas' =
          or_insert(json_schemas, task[t].key, Arc(t, "inserted"))
    /\ rw_lock' = [rw_lock EXCEPT !.writers = {}]
    /\ task' = At(t, "done", [tag |-> "Ok", arc |-> Arc(t, "returned")])
    /\ UNCHANGED <<loads, schema_parses, pipeline_vars, client_vars>>

CacheInit ==
    /\ file_contents = <<>>
    /\ NotCalled
    /\ CacheEmpty
    /\ schema_parses \in BOOLEAN

CacheNext ==
    \E t \in Tasks :
        \/ \E key \in Keys : GetOrLoadSchema(t, key)
        \/ ReadLock(t)
        \/ GetHit(t)
        \/ GetMiss(t)
        \/ FromStrSchema(t)
        \/ WriteLock(t)
        \/ OrInsertAndReturn(t)

CacheSpec == CacheInit /\ [][CacheNext]_vars

-----------------------------------------------------------------------------
(* lib.rs: validate_liberally as a function of its arguments; main.rs:      *)
(* did_open, did_change and on_change, which publishes what it returns.     *)

\* lib.rs:31-44: the match on the ParsedContent; the validator is built and
\* run for a Valid document only
ValidateParsed(schema, content, contents) ==
    IF content.panic THEN Panicked
    ELSE IF content.v.tag = "ParseError" THEN Done(<<content.v.diagnostic>>)
    ELSE IF ~validator_for_ok(schema) THEN Panicked
    ELSE MapDiagnostics(iter_errors(schema, content.v.json, <<>>), contents)

\* validate_liberally(json_schema, file_contents): Done(the diagnostics of
\* its Ok), or the panic
validate_liberally(schema, contents) ==
    ValidateParsed(schema, ParsedContent_new(from_str(contents)), contents)

\* main.rs:107: on_change is entered with the uri, text and version
OnChange(uri, text, version) ==
    /\ change' = [uri |-> uri, version |-> version, published |-> 0]
    /\ file_contents' = text
    /\ result' = Unset
    /\ pc' = "on_change"

\* main.rs:61-68: did_open hands the document's text to on_change
DidOpen(uri, text) ==
    /\ pc \in {"idle", "finished"}
    /\ change = Unset
    /\ OnChange(uri, text, 1)
    /\ UNCHANGED <<json_schema, serde_result, parsed, validation_errors,
                   json_pointer, index, helper_out, client, cache_vars>>

\* main.rs:70-77: did_change hands content_changes[0].text to on_change;
\* the index panics on an empty content_changes
DidChange(uri, content_changes) ==
    /\ pc \in {"idle", "finished"}
    /\ change # Unset
    /\ change.version < MaxVersion
    /\ IF content_changes = <<>>
       THEN pc' = "panicked" /\ UNCHANGED <<change, file_contents, result>>
       ELSE OnChange(uri, content_changes[1], change.version + 1)
    /\ UNCHANGED <<json_schema, serde_result, parsed, validation_errors,
                   json_pointer, index, helper_out, client, cache_vars>>

\* the Err arm publishing an empty list for the document before it returns
OnChangeSchemaErr_PublishesEmpty ==
    /\ pc = "on_change"
    /\ ~schema_parses
    /\ client' = [client EXCEPT ![change.uri] =
                     [version |-> change.version, diagnostics |-> <<>>]]
    /\ pc' = "finished"
    /\ UNCHANGED <<file_contents, json_schema, serde_result, parsed,
                   validation_errors, result, json_pointer, index,
                   helper_out, cache_vars, change>>

\* main.rs:108, :128-131: get_or_load_schema returned Err: log and return
OnChangeSchemaErr ==
    /\ pc = "on_change"
    /\ ~schema_parses
    /\ pc' = "finished"
    /\ UNCHANGED <<file_contents, json_schema, serde_result, parsed,
                   validation_errors, result, json_pointer, index,
                   helper_out, cache_vars, client_vars>>

\* where validate_liberally leaves on_change (main.rs:116-122)
Validated(diagnostics) ==
    IF diagnostics.panic THEN result' = result /\ pc' = "panicked"
    ELSE result' = Ok(diagnostics.v) /\ pc' = "validated"

\* main.rs:108, :114-116: the schema loaded; validate_liberally(&schema, text)
OnChangeValidate ==
    /\ pc = "on_change"
    /\ schema_parses
    /\ Validated(validate_liberally(json_schema, file_contents))
    /\ UNCHANGED <<file_contents, json_schema, serde_result, parsed,
                   validation_errors, json_pointer, index, helper_out,
                   cache_vars, client_vars>>

\* main.rs:124-126: client.publish_diagnostics(uri, diagnostics, version)
PublishDiagnostics ==
    /\ pc = "validated"
    /\ client' = [client EXCEPT ![change.uri] =
                     [version |-> change.version,
                      diagnostics |-> result.diagnostics]]
    /\ change' = [change EXCEPT !.published = @ + 1]
    /\ pc' = "finished"
    /\ UNCHANGED <<file_contents, json_schema, serde_result, parsed,
                   validation_errors, result, json_pointer, index,
                   helper_out, cache_vars>>

\* the server starts with the schema the build embedded: a text that parses
\* to one of the schema values, or one that is no JSON
ChangeInit ==
    /\ file_contents = <<>>
    /\ json_schema \in Schemas
    /\ pc = "idle"
    /\ serde_result = Unset
    /\ parsed = Unset
    /\ validation_errors = <<>>
    /\ result = Unset
    /\ json_pointer = <<>>
    /\ index = 0
    /\ helper_out = Unset
    /\ change = Unset
    /\ client = [uri \in Uris |-> Unset]
    /\ CacheEmpty
    /\ schema_parses \in BOOLEAN

ChangeNext ==
    \/ \E uri \in Uris, text \in {<<>>, DocA1, DocAString, DocVersionOnly} :
          DidOpen(uri, text)
    \/ \E uri \in Uris,
          text \in {<<>>, DocA1, DocAString, DocVersionOnly},
          n \in {0, 1} :
          DidChange(uri, [k \in 1..n |-> text])
    \/ OnChangeSchemaErr
    \/ OnChangeValidate
    \/ PublishDiagnostics

ChangeSpec == ChangeInit /\ [][ChangeNext]_vars

-----------------------------------------------------------------------------
(* parsing.rs: extract_schema_reference and check_shebang_schema, with the  *)
(* serde_json and regex calls they make.                                    *)

\* the value of a byte, for the key order of serde_json::Map (a BTreeMap);
\* "60" stands for the grave accent
Printable ==
    <<" ", "!", QUOTE, "#", "$", "%", "&", "'", "(", ")", "*", "+", ",", "-",
      ".", "/", "0", "1", "2", "3", "4", "5", "6", "7", "8", "9", ":", ";",
      "<", "=", ">", "?", "@", "A", "B", "C", "D", "E", "F", "G", "H", "I",
      "J", "K", "L", "M", "N", "O", "P", "Q", "R", "S", "T", "U", "V", "W",
      "X", "Y", "Z", "[", "\\", "]", "^", "_", "60", "a", "b", "c", "d", "e",
      "f", "g", "h", "i", "j", "k", "l", "m", "n", "o", "p", "q", "r", "s",
      "t", "u", "v", "w", "x", "y", "z", "{", "|", "}", "~">>
Ord(c) ==
    CASE c = "\t" -> 9 [] c = NL -> 10 [] c = "\r" -> 13
      [] c = ContByte -> 169 [] c = LeadByte -> 195
      [] OTHER -> 31 + (CHOOSE i \in 1..Len(Printable) : Printable[i] = c)

\* Ord for String: byte by byte, a proper prefix first
KeyLt(a, b) ==
    \E i \in 1..(Len(a) + 1) :
        /\ i <= Len(b)
        /\ SubSeq(a, 1, i - 1) = SubSeq(b, 1, i - 1)
        /\ (i > Len(a) \/ Ord(a[i]) < Ord(b[i]))

\* Map::iter: the keys in ascending order
KeysInOrder(map) ==
    CHOOSE q \in [1..Cardinality(DOMAIN map) -> DOMAIN map] :
        \A i, j \in 1..Cardinality(DOMAIN map) : i < j => KeyLt(q[i], q[j])

\* serde_json's format_escaped_str_contents: the escape of one byte
Escape(c) ==
    CASE c = QUOTE -> <<"\\", QUOTE>>
      [] c = "\\" -> <<"\\", "\\">>
      [] c = NL -> <<"\\", "n">>
      [] c = "\t" -> <<"\\", "t">>
      [] c = "\r" -> <<"\\", "r">>
      [] OTHER -> <<c>>

RECURSIVE format_escaped_str_contents(_)
format_escaped_str_contents(s) ==
    IF s = <<>> THEN <<>>
    ELSE Escape(Head(s)) \o format_escaped_str_contents(Tail(s))

\* the string written as it is, with no quotes and no escapes
format_escaped_str_Display(s) == s

\* serde_json's format_escaped_str: the quotes and the escaped contents
format_escaped_str(s) ==
    <<QUOTE>> \o format_escaped_str_contents(s) \o <<QUOTE>>

\* itoa of a u64
RECURSIVE write_u64(_)
write_u64(n) ==
    IF n < 10 THEN <<Printable[17 + n]>>
    ELSE Append(write_u64(n \div 10), Printable[17 + (n % 10)])

\* what the compact serializer has still to write: bytes, or a value
Bytes(b) == [lit |-> TRUE, bytes |-> b]
Value(v) == [lit |-> FALSE, value |-> v]
Comma(i) == IF i > 1 THEN <<",">> ELSE <<>>

\* Serialize for Value: what one value writes, its elements and members
\* still to be serialized in their turn
serialize(v) ==
    CASE v.t = "null" -> <<Bytes(<<"n", "u", "l", "l">>)>>
      [] v.t = "boolean" ->
             <<Bytes(IF v.bool THEN <<"t", "r", "u", "e">>
                     ELSE <<"f", "a", "l", "s", "e">>)>>
      [] v.t = "number" ->
             <<Bytes(IF v.num < 0 THEN <<"-">> \o write_u64(0 - v.num)
                     ELSE write_u64(v.num))>>
      [] v.t = "string" -> <<Bytes(format_escaped_str(v.str))>>
      [] v.t = "array" ->
             <<Bytes(<<"[">>)>>
             \o [i \in 1..(2 * Len(v.items)) |->
                    IF i % 2 = 1 THEN Bytes(Comma(i))
                    ELSE Value(v.items[i \div 2])]
             \o <<Bytes(<<"]">>)>>
      [] v.t = "object" ->
             <<Bytes(<<"{">>)>>
             \o [i \in 1..(2 * Cardinality(DOMAIN v.members)) |->
                    IF i % 2 = 1
                    THEN Bytes(Comma(i)
                               \o format_escaped_str(
                                      KeysInOrder(v.members)[(i + 1) \div 2])
                               \o <<":">>)
                    ELSE Value(v.members[KeysInOrder(v.members)[i \div 2]])]
             \o <<Bytes(<<"}">>)>>

RECURSIVE to_writer(_)
to_writer(todo) ==
    IF todo = <<>> THEN <<>>
    ELSE IF Head(todo).lit THEN Head(todo).bytes \o to_writer(Tail(todo))
    ELSE to_writer(serialize(Head(todo).value) \o Tail(todo))

\* Value::to_string (Display): the compact serialization
to_string(v) == to_writer(<<Value(v)>>)

\* str::lines().next(): None for "", else the text before the first "\n",
\* less the "\r" that ends it
StripCr(line, terminated) ==
    IF terminated /\ line # <<>> /\ line[Len(line)] = "\r"
    THEN SliceTo(line, Len(line) - 1)
    ELSE line
lines_next(content) ==
    IF content = <<>> THEN None
    ELSE IF find(content, <<NL>>).some
    THEN Some(StripCr(SliceTo(content, find(content, <<NL>>).v), TRUE))
    ELSE Some(content)

\* what \s matches among the bytes of the model, and the length of the
\* longest run of bytes of (or not of) a class from i
RegexSpace == {" ", "\t", NL, "\r", "\f"}
RECURSIVE Run(_, _, _)
Run(s, i, space) ==
    IF i < Len(s) /\ ((s[i + 1] \in RegexSpace) = space)
    THEN 1 + Run(s, i + 1, space)
    ELSE 0

\* parsing.rs:27: ^#\$schema\s+(\S+) on a line: group 1 of the match
ShebangPrefix == <<"#", "$", "s", "c", "h", "e", "m", "a">>
Group1(line, from) ==
    IF Run(line, from, FALSE) = 0 THEN None
    ELSE Some(SubSeq(line, from + 1, from + Run(line, from, FALSE)))
captures(line) ==
    IF ~StartsWithAt(line, ShebangPrefix, 0) THEN None
    ELSE IF Run(line, Len(ShebangPrefix), TRUE) = 0 THEN None
    ELSE Group1(line, Len(ShebangPrefix) + Run(line, Len(ShebangPrefix), TRUE))

\* parsing.rs:22-37
check_shebang_schema(content) ==
    IF ~lines_next(content).some THEN None
    ELSE captures(lines_next(content).v)

\* Value::get(&str): a member of an object, None of any other value
KeySchema == <<"$", "s", "c", "h", "e", "m", "a">>
get(v, key) ==
    IF v.t = "object" /\ key \in DOMAIN v.members THEN Some(v.members[key])
    ELSE None

\* parsing.rs:10-18
extract_schema_reference(content) ==
    IF check_shebang_schema(to_string(content)).some
    THEN check_shebang_schema(to_string(content))
    ELSE IF ~get(content, KeySchema).some THEN None
    ELSE Some(to_string(get(content, KeySchema).v))

\* the texts and the values the two functions are called on
ShebangText == ShebangPrefix \o <<" ", "a">>
RefTexts ==
    StringsUpTo({"#", "a", NL}, MaxLen)
    \cup {ShebangText, ShebangText \o <<NL, "{", "}">>,
          ShebangPrefix \o <<"\t", " ", "a", "\r", NL>>,
          ShebangPrefix \o <<" ">>, <<" ">> \o ShebangText}
Scalars ==
    {JNull, JBool(TRUE), JBool(FALSE), JNumber(0), JNumber(10), JNumber(-1)}
    \cup {JString(s) : s \in RefTexts \cup {<<QUOTE>>, <<"\\">>}}
Member(k, v) == MapInsert(EmptyMap, k, v)
JsonValues ==
    Scalars
    \cup {JArray(<<>>), JObject(EmptyMap),
          JArray(<<JString(ShebangText), JNumber(1)>>)}
    \cup {JArray(<<v>>) : v \in Scalars}
    \cup {JObject(Member(k, v)) :
             k \in {KeySchema, KeyA, ShebangText}, v \in Scalars}
    \cup {JObject(MapInsert(Member(KeyA, JNumber(1)), KeySchema, v)) :
             v \in Scalars \cup {JArray(<<>>),
                                 JObject(Member(KeySchema, JNull))}}

\* extract_schema_reference(&content) on the value a parse made
ExtractSchemaReferenceCall ==
    /\ pc = "idle"
    /\ pc' = "extract_schema_reference"
    /\ helper_out' = [serialised |-> to_string(parsed.json),
                      shebang |-> check_shebang_schema(to_string(parsed.json)),
                      reference |-> extract_schema_reference(parsed.json)]
    /\ UNCHANGED <<file_contents, json_schema, serde_result, parsed,
                   validation_errors, result, json_pointer, index,
                   cache_vars, client_vars>>

\* check_shebang_schema(content) on the text of a file
CheckShebangSchemaCall ==
    /\ pc = "idle"
    /\ pc' = "check_shebang_schema"
    /\ helper_out' = check_shebang_schema(file_contents)
    /\ UNCHANGED <<file_contents, json_schema, serde_result, parsed,
                   validation_errors, result, json_pointer, index,
                   cache_vars, client_vars>>

ReferenceInit ==
    /\ file_contents \in RefTexts
    /\ parsed \in {[tag |-> "Valid", json |-> v] : v \in JsonValues}
    /\ json_schema = Unset
    /\ pc = "idle"
    /\ serde_result = Unset
    /\ validation_errors = <<>>
    /\ result = Unset
    /\ json_pointer = <<>>
    /\ index = 0
    /\ helper_out = Unset
    /\ change = Unset
    /\ client = [uri \in Uris |-> Unset]
    /\ CacheEmpty
    /\ schema_parses = TRUE

ReferenceNext ==
    \/ ExtractSchemaReferenceCall
    \/ CheckShebangSchemaCall

ReferenceSpec == ReferenceInit /\ [][ReferenceNext]_vars

-----------------------------------------------------------------------------
(* validator.rs: the single-file draft, schema_validated_filecontents with  *)
(* its modules parsing, validation and pointer.                             *)

\* the draft's LineNumber::from_index counting lines from 1
LineNumber_from_index_OneBased(raw_file_contents, idx) ==
    LET safe_index == Min(idx, Len(raw_file_contents))
    IN  IF ~is_char_boundary(raw_file_contents, safe_index) THEN Panicked
        ELSE Done(AsU32(CountNewlines(SliceTo(raw_file_contents, safe_index)))
                  + 1)

\* validator.rs:363-378: pointer::LineNumber::from_index
LineNumber_from_index(raw_file_contents, idx) ==
    LET safe_index == Min(idx, Len(raw_file_contents))
    IN  IF ~is_char_boundary(raw_file_contents, safe_index) THEN Panicked
        ELSE Done(AsU32(CountNewlines(SliceTo(raw_file_contents, safe_index))))

\* validator.rs:330-352: one iteration of the loop of PointerIndex::calculate
PointerIndex_step(st, path_item) ==
    IF st.panic THEN Panicked
    ELSE LET temp_index == unwrap_or(find(st.v.stacked_file_contents, path_item), 0)
             rest == split_off(st.v.stacked_file_contents, temp_index)
         IN  IF rest.panic THEN Panicked
             ELSE Done([stacked_file_contents |-> rest.v,
                        index_summation |-> st.v.index_summation + temp_index])

RECURSIVE PointerIndex_loop(_, _)
PointerIndex_loop(st, path_items) ==
    IF path_items = <<>> THEN st
    ELSE PointerIndex_loop(PointerIndex_step(st, Head(path_items)),
                           Tail(path_items))

\* validator.rs:354: the loop's index_summation is the result
PointerIndex_summation(st) ==
    IF st.panic THEN Panicked ELSE Done(st.v.index_summation)

\* validator.rs:319-355: pointer::PointerIndex::calculate
PointerIndex_calculate(json_pointer_, raw_file_contents) ==
    PointerIndex_summation(
        PointerIndex_loop(Done([stacked_file_contents |-> raw_file_contents,
                                index_summation |-> 0]),
                          split(json_pointer_, SLASH)))

\* validator.rs:296-311: the line of the index, and the range on it
json_pointer_line(raw_file_contents, index_summation) ==
    IF index_summation.panic THEN Panicked
    ELSE LineNumber_from_index(raw_file_contents, index_summation.v)
json_pointer_range(line_number) ==
    IF line_number.panic THEN Panicked
    ELSE Done(Some(Range(Position(line_number.v, 0),
                         Position(line_number.v, 0))))

\* validator.rs:268-312: pointer::json_pointer_into_range
json_pointer_into_range(json_pointer_, raw_file_contents) ==
    json_pointer_range(
        json_pointer_line(raw_file_contents,
                          PointerIndex_calculate(json_pointer_, raw_file_contents)))

\* validator.rs:240-258: pointer::DiagnosticRange::from_pointer
DiagnosticRange_match(r) ==
    IF r.panic THEN Panicked
    ELSE IF r.v.some THEN Done(r.v.v)
    ELSE Done(Range(Position(0, 0), Position(0, 0)))
DiagnosticRange_from_pointer(json_pointer_, contents) ==
    DiagnosticRange_match(json_pointer_into_range(json_pointer_, contents))

\* validator.rs:194-215: validation::ValidationDiagnostic::new
validation_with_range(err, range) ==
    IF range.panic THEN Panicked
    ELSE Done([instance_path |-> err.instance_path,
               error_message |-> err.kind,
               range |-> range.v])
validation_ValidationDiagnostic_new(err, contents) ==
    validation_with_range(err,
                          DiagnosticRange_from_pointer(err.instance_path, contents))

\* validator.rs:218-228: From<ValidationDiagnostic> for Diagnostic
validation_Diagnostic_from(diag) ==
    [range |-> diag.range, severity |-> Some("ERROR"),
     message |-> <<"Path ", diag.instance_path, ", Error: ", diag.error_message>>,
     source |-> Some(diag.instance_path)]

\* validator.rs:175-181: validation_errors.into_iter().map(..).collect()
validation_collect(made) ==
    IF \E k \in 1..Len(made) : made[k].panic THEN Panicked
    ELSE Done([k \in 1..Len(made) |-> validation_Diagnostic_from(made[k].v)])
validation_map(errors, contents) ==
    validation_collect([k \in 1..Len(errors) |->
                           validation_ValidationDiagnostic_new(errors[k], contents)])

\* validator.rs:148-182: validation::SchemaValidator::validate
validation_validate(schema, file_as_json, contents) ==
    IF ~validator_for_ok(schema) THEN Panicked
    ELSE validation_map(iter_errors(schema, file_as_json, <<>>), contents)

\* validator.rs:78-93: From<serde_json::Error> for ParseErrorDiagnostic
parsing_zero_based(err, line) ==
    IF line.panic THEN Panicked
    ELSE Done([line |-> line.v, column |-> AsU32(err.column),
               message |-> <<err.code, err.line, err.column>>])
parsing_ParseErrorDiagnostic_from(err) ==
    parsing_zero_based(err, U32Sub(AsU32(err.line), 1))

\* validator.rs:96-117: From<ParseErrorDiagnostic> for Diagnostic
parsing_Diagnostic_from(diag) ==
    [range |-> Range(Position(diag.line, 0),
                     Position(diag.line, saturating_sub(diag.column, 1))),
     severity |-> Some("ERROR"), message |-> diag.message, source |-> None]

\* validator.rs:51-66: parsing::ParsedContent::new
parsing_into(d) ==
    IF d.panic THEN Panicked
    ELSE Done([tag |-> "ParseError", diagnostic |-> parsing_Diagnostic_from(d.v)])
parsing_ParsedContent_new(r) ==
    IF r.ok THEN Done([tag |-> "Valid", json |-> r.value])
    ELSE parsing_into(parsing_ParseErrorDiagnostic_from(r))

\* validator.rs:23-36: the match on the ParsedContent
schema_validated_match(schema, content, contents) ==
    IF content.panic THEN Panicked
    ELSE IF content.v.tag = "Valid"
    THEN validation_validate(schema, content.v.json, contents)
    ELSE Done(<<content.v.diagnostic>>)

\* validator.rs:13-37: Done(the diagnostics of its Ok), or the panic
schema_validated_filecontents(schema, contents) ==
    schema_validated_match(schema, parsing_ParsedContent_new(from_str(contents)),
                           contents)

\* the two pipelines are called, in either order, on one schema and one text
Called(which) ==
    IF pc = "idle" THEN which ELSE "both"

\* lib.rs:21: validate_liberally(&json_schema, file_contents)
ValidateLiberallyCall ==
    /\ pc \in {"idle", "schema_validated_filecontents"}
    /\ pc' = Called("validate_liberally")
    /\ result' = validate_liberally(json_schema, file_contents)
    /\ UNCHANGED <<file_contents, json_schema, serde_result, parsed,
                   validation_errors, json_pointer, index, helper_out,
                   cache_vars, client_vars>>

\* validator.rs:13: schema_validated_filecontents(&json_schema, file_contents)
SchemaValidatedFilecontentsCall ==
    /\ pc \in {"idle", "validate_liberally"}
    /\ pc' = Called("schema_validated_filecontents")
    /\ helper_out' = schema_validated_filecontents(json_schema, file_contents)
    /\ UNCHANGED <<file_contents, json_schema, serde_result, parsed,
                   validation_errors, json_pointer, index, result,
                   cache_vars, client_vars>>

DraftInit ==
    /\ file_contents \in Texts
    /\ json_schema \in Schemas
    /\ pc = "idle"
    /\ serde_result = Unset
    /\ parsed = Unset
    /\ validation_errors = <<>>
    /\ result = Unset
    /\ json_pointer = <<>>
    /\ index = 0
    /\ helper_out = Unset
    /\ change = Unset
    /\ client = [uri \in Uris |-> Unset]
    /\ CacheEmpty
    /\ schema_parses = TRUE

DraftNext ==
    \/ ValidateLiberallyCall
    \/ SchemaValidatedFilecontentsCall

DraftSpec == DraftInit /\ [][DraftNext]_vars

-----------------------------------------------------------------------------
(* Properties *)

\* a validate_liberally call has parsed the document
InCall == pc \in {"parsed", "returned", "panicked"}
\* the call is over: it returned, or a panic unwound it
CallOver == pc \in {"returned", "panicked"}

\* the shape of the syntax-error result: one diagnostic without a source
IsSyntaxErrorResult(res) ==
    /\ res.tag = "Ok"
    /\ Len(res.diagnostics) = 1
    /\ ~res.diagnostics[1].source.some

\* C1: a document that fails JSON parsing makes validate_liberally return
\* Ok with exactly one diagnostic, whose source is None and whose range
\* starts on the parser's 1-based line minus one.
C1_SyntaxErrorOneDiagnostic ==
    (InCall /\ ~serde_result.ok) =>
        /\ pc # "panicked"
        /\ parsed.tag = "ParseError"
        /\ pc = "returned" =>
              /\ IsSyntaxErrorResult(result)
              /\ result.diagnostics[1].range.start.line = serde_result.line - 1

\* C1 happens: an unparsable document whose error the parser reports on its
\* second line has returned
C1_Witness ==
    /\ pc = "returned"
    /\ ~serde_result.ok
    /\ serde_result.line = 2

\* C2: a document that is valid JSON goes to schema validation and never
\* comes back in the syntax-error shape: the result is empty or every
\* diagnostic in it has a source.
C2_ValidJsonNoSyntaxShape ==
    (InCall /\ serde_result.ok) =>
        /\ parsed.tag = "Valid"
        /\ pc = "returned" =>
              /\ result.tag = "Ok"
              /\ ~IsSyntaxErrorResult(result)
              /\ Len(result.diagnostics) = Len(validation_errors)
              /\ \A k \in 1..Len(result.diagnostics) :
                    result.diagnostics[k].source.some

\* C2 happens: a valid document came back with a diagnostic
C2_Witness ==
    /\ pc = "returned"
    /\ serde_result.ok
    /\ Len(result.diagnostics) >= 1

\* C3: when the document parses and the validator compiled from the schema
\* finds no violation in its value, the call returns Ok with an empty list;
\* and a non-empty list for a parsable document means the validator
\* enumerated at least one violation.
C3_EmptyIffNoViolation ==
    (pc = "returned" /\ serde_result.ok) =>
        /\ result.tag = "Ok"
        /\ iter_errors(json_schema, parsed.json, <<>>) = <<>> =>
              result.diagnostics = <<>>
        /\ result.diagnostics # <<>> => validation_errors # <<>>

\* C3 happens: a document that satisfies a schema with constraints returned
\* the empty list
C3_Witness ==
    /\ pc = "returned"
    /\ serde_result.ok
    /\ json_schema = SchemaA
    /\ result.diagnostics = <<>>

\* C4: with a schema that compiles, no document text makes the call panic
\* or return Err: every text yields Ok(list), and every unparsable text,
\* the empty one included, yields the syntax-error diagnostic.
C4_NoPanicNoErr ==
    (InCall /\ validator_for_ok(json_schema)) =>
        /\ pc # "panicked"
        /\ pc = "parsed" => parsed.tag \in {"ParseError", "Valid"}
        /\ pc = "returned" =>
              /\ result.tag = "Ok"
              /\ ~serde_result.ok => IsSyntaxErrorResult(result)
        /\ file_contents = <<>> => ~serde_result.ok

\* C4 happens: the empty text has returned under a schema that compiles
C4_Witness ==
    /\ pc = "returned"
    /\ file_contents = <<>>
    /\ validator_for_ok(json_schema)
    /\ IsSyntaxErrorResult(result)

\* C5: when the document parses but the schema cannot be compiled, the call
\* returns an Err value to its caller.
C5_BadSchemaReturnsErr ==
    (InCall /\ serde_result.ok /\ ~validator_for_ok(json_schema)) =>
        /\ pc # "panicked"
        /\ pc = "returned" => result.tag = "Err"

\* the ranges a state holds: of the diagnostics returned, and of into_range
\* and from_pointer
RangesReturned ==
    IF pc = "returned"
    THEN {result.diagnostics[k].range : k \in 1..Len(result.diagnostics)}
    ELSE IF pc = "from_pointer"
    THEN (IF helper_out.into_range.panic \/ ~helper_out.into_range.v.some
          THEN {} ELSE {helper_out.into_range.v.v})
         \cup (IF helper_out.range.panic THEN {} ELSE {helper_out.range.v})
    ELSE {}

\* C6, as claimed: every range returned has start.line <= end.line and
\* both lines strictly below the document's line count (lines().count()).
C6_LinesBelowLineCount ==
    \A r \in RangesReturned :
        /\ r.start.line <= r.end.line
        /\ r.start.line < lines_count(file_contents)
        /\ r.end.line < lines_count(file_contents)

\* C6, amended: every range returned has start.line <= end.line and both
\* lines at most the number of newlines of the document; they are strictly
\* below its line count when it is not empty and does not end in a newline.
C6_LinesWithinNewlines ==
    \A r \in RangesReturned :
        /\ r.start.line <= r.end.line
        /\ r.end.line <= CountNewlines(file_contents)
        /\ (file_contents # <<>> /\ file_contents[Len(file_contents)] # NL) =>
              r.end.line < lines_count(file_contents)

\* C6 happens: a diagnostic on the last line of a document that ends in a
\* newline, and so at its line count
C6_Witness ==
    /\ pc = "returned"
    /\ Len(result.diagnostics) = 1
    /\ file_contents # <<>>
    /\ file_contents[Len(file_contents)] = NL
    /\ result.diagnostics[1].range.start.line = lines_count(file_contents)

\* C8: from_index(text, offset) is the number of newlines of text strictly
\* before min(offset, len(text)), for every text and offset.
C8_FromIndexCountsNewlines ==
    pc = "from_index" =>
        helper_out = Done(CountNewlines(SliceTo(file_contents,
                                                Min(index, Len(file_contents)))))

\* a pointer whose items are all empty: "", "/", "//", ...
IsRootPath(ptr) == \A k \in 1..Len(ptr) : ptr[k] = SLASH

\* C9: for the empty path and for a path of empty items only, calculate
\* returns offset 0 for every text, and the range resolved is line 0,
\* character 0.
C9_RootPathOffsetZero ==
    (pc = "from_pointer" /\ IsRootPath(json_pointer)) =>
        /\ helper_out.index_summation = Done(0)
        /\ helper_out.into_range = Done(Some(RangeDefault))
        /\ helper_out.range = Done(RangeDefault)

\* C9 happens: the path "/" was resolved in a text that starts with a
\* newline and goes on
C9_Witness ==
    /\ pc = "from_pointer"
    /\ json_pointer = <<SLASH>>
    /\ Len(file_contents) >= 2
    /\ file_contents[1] = NL

\* the zero-width range at the start of a line
LineStart(line) == Range(Position(line, 0), Position(line, 0))

C11_ParseDiagnosticRange ==
    (pc \in {"parsed", "returned"} /\ ~serde_result.ok) =>
        /\ serde_result.line >= 1
        /\ serde_result.column >= 0
        /\ parsed.diagnostic.range.start =
              Position(serde_result.line - 1, 0)
        /\ parsed.diagnostic.range.end =
              Position(serde_result.line - 1,
                       IF serde_result.column >= 1
                       THEN serde_result.column - 1 ELSE 0)
        /\ parsed.diagnostic.range.end.character
              >= parsed.diagnostic.range.start.character
        /\ parsed.diagnostic.severity = Some("ERROR")
        /\ parsed.diagnostic.message =
              <<serde_result.code, serde_result.line, serde_result.column>>
        /\ ~parsed.diagnostic.source.some
        /\ pc = "returned" => result = Ok(<<parsed.diagnostic>>)

\* C11 happens: a report at column 0 of the second line came back as a
\* diagnostic
C11_Witness ==
    /\ pc = "returned"
    /\ ~serde_result.ok
    /\ serde_result.line = 2
    /\ serde_result.column = 0

\* C12: for a parsable document the list returned has one diagnostic per
\* violation the validator enumerated, in the order of the enumeration; the
\* k-th has severity Error, source Some(path of the k-th violation), message
\* "Path {path}, Error: {description}" and range from_pointer(path, text).
C12_OneDiagnosticPerViolation ==
    (pc = "returned" /\ serde_result.ok) =>
        /\ validation_errors = iter_errors(json_schema, serde_result.value, <<>>)
        /\ Len(result.diagnostics) = Len(validation_errors)
        /\ \A k \in 1..Len(validation_errors) :
              /\ result.diagnostics[k].severity = Some("ERROR")
              /\ result.diagnostics[k].source =
                    Some(validation_errors[k].instance_path)
              /\ result.diagnostics[k].message =
                    <<"Path ", validation_errors[k].instance_path,
                      ", Error: ", validation_errors[k].kind>>
              /\ Done(result.diagnostics[k].range) =
                    from_pointer(validation_errors[k].instance_path,
                                 file_contents)

\* C12 happens: a document with two violations, of different kinds, returned
C12_Witness ==
    /\ pc = "returned"
    /\ serde_result.ok
    /\ Len(validation_errors) = 2
    /\ validation_errors[1].kind # validation_errors[2].kind

\* C13: a syntax error is terminal: when the text does not parse, the schema
\* is neither compiled nor run, so the call cannot abort on a schema that
\* does not compile, no violation is enumerated (and so no pointer is
\* resolved), and the one diagnostic returned is a function of the text alone.
C13_SyntaxErrorTerminal ==
    (InCall /\ ~serde_result.ok) =>
        /\ pc # "panicked"
        /\ validation_errors = <<>>
        /\ pc = "returned" =>
              result = Ok(<<Diagnostic_from_parse(
                              ParseErrorDiagnostic_from(
                                  from_str(file_contents)).v)>>)

\* C13 happens: an unparsable text has returned under a schema that does
\* not compile
C13_Witness ==
    /\ pc = "returned"
    /\ ~serde_result.ok
    /\ ~validator_for_ok(json_schema)
    /\ IsSyntaxErrorResult(result)

\* the segments of a pointer that starts with '/'
Segments(ptr) == Tail(split(ptr, SLASH))

\* every segment is non-empty and the segments occur in the text in path
\* order: at positions that never go back
OccurInPathOrder(ptr, text) ==
    /\ ptr # <<>>
    /\ Head(ptr) = SLASH
    /\ \A k \in 1..Len(Segments(ptr)) : Segments(ptr)[k] # <<>>
    /\ \E at \in [1..Len(Segments(ptr)) -> 0..Len(text)] :
          /\ \A k \in 1..Len(Segments(ptr)) :
                StartsWithAt(text, Segments(ptr)[k], at[k])
          /\ \A k \in 1..(Len(Segments(ptr)) - 1) : at[k] <= at[k + 1]

C15_SingleFlight ==
    schema_parses => \A k \in Keys : loads[k] <= 1

\* the items of the pointer a from_pointer call resolved, and the loop
\* state of calculate before and after its k-th item
PathItems == split(json_pointer, SLASH)
Before(k) == helper_out.loop[k].v
After(k) == helper_out.loop[k + 1].v
LoopRan ==
    /\ Len(helper_out.loop) = Len(PathItems) + 1
    /\ \A k \in 1..Len(helper_out.loop) : ~helper_out.loop[k].panic

\* where pat occurs in hay, as 0-based byte indices
Occurrences(hay, pat) ==
    {i \in 0..(Len(hay) - Len(pat)) : StartsWithAt(hay, pat, i)}

\* C16: when a non-empty segment occurs in the remaining suffix, at relative
\* index i first, the cursor grows by exactly i and the remaining suffix
\* becomes the old one from index i on: it starts with the match.
C16_FoundStep ==
    pc = "from_pointer" =>
        /\ LoopRan
        /\ \A k \in 1..Len(PathItems) :
              \A i \in Occurrences(Before(k).stacked_file_contents, PathItems[k]) :
                 (/\ PathItems[k] # <<>>
                  /\ \A j \in Occurrences(Before(k).stacked_file_contents,
                                           PathItems[k]) : i <= j)
                 => /\ After(k).index_summation = Before(k).index_summation + i
                    /\ After(k).stacked_file_contents =
                          SliceFrom(Before(k).stacked_file_contents, i)
                    /\ StartsWithAt(After(k).stacked_file_contents,
                                    PathItems[k], 0)

\* C16 happens: the second segment was found again at the start of the
\* suffix the first one left, at index 0 of it
C16_Witness ==
    /\ pc = "from_pointer"
    /\ json_pointer = PtrSlashA
    /\ LoopRan
    /\ After(2).index_summation > 0
    /\ After(3).index_summation = After(2).index_summation
    /\ StartsWithAt(After(3).stacked_file_contents, KeyA, 0)

\* the pointer without its last segment, and that segment
Parent(ptr) ==
    SubSeq(ptr, 1, Len(ptr) - Len(PathItems[Len(PathItems)]) - 1)
LastItem == PathItems[Len(PathItems)]

\* C17: a non-empty segment that does not occur in the remaining suffix
\* leaves the cursor and the suffix as they were and the lookup goes on:
\* calculate(p + "/" + s, text) = calculate(p, text) when s is absent from
\* text[calculate(p, text)..].
C17_NotFoundStep ==
    pc = "from_pointer" =>
        /\ LoopRan
        /\ \A k \in 1..Len(PathItems) :
              (/\ PathItems[k] # <<>>
               /\ Occurrences(Before(k).stacked_file_contents, PathItems[k]) = {})
              => After(k) = Before(k)
        /\ (/\ Len(PathItems) >= 2
             /\ LastItem # <<>>
             /\ Occurrences(SliceFrom(file_contents,
                                      calculate(Parent(json_pointer),
                                                file_contents).v),
                            LastItem) = {})
            => helper_out.index_summation =
                  calculate(Parent(json_pointer), file_contents)

\* C17 happens: a segment was not found and the segment after it was found
\* further on in the suffix left as it was
C17_Witness ==
    /\ pc = "from_pointer"
    /\ LoopRan
    /\ \E k \in 1..(Len(PathItems) - 1) :
          /\ PathItems[k] # <<>>
          /\ Occurrences(Before(k).stacked_file_contents, PathItems[k]) = {}
          /\ After(k) = Before(k)
          /\ After(k + 1).index_summation > After(k).index_summation

\* C18: each segment found resolves to the leftmost occurrence of its text at
\* or after the cursor, whatever the JSON structure: no occurrence lies
\* between the old cursor and the new one.  In the document whose string
\* value holds the text of a later key, /1 resolves into the value.
C18_LeftmostOccurrence ==
    pc = "from_pointer" =>
        /\ LoopRan
        /\ \A k \in 1..Len(PathItems) :
              (/\ PathItems[k] # <<>>
               /\ \E i \in Before(k).index_summation..Len(file_contents) :
                     StartsWithAt(file_contents, PathItems[k], i))
              => /\ After(k).index_summation >= Before(k).index_summation
                 /\ StartsWithAt(file_contents, PathItems[k],
                                 After(k).index_summation)
                 /\ \A j \in Before(k).index_summation
                                ..(After(k).index_summation - 1) :
                       ~StartsWithAt(file_contents, PathItems[k], j)
        /\ (file_contents = DocValueBeforeKey /\ json_pointer = <<SLASH, "1">>)
            => /\ helper_out.index_summation = Done(6)
               /\ helper_out.range = Done(LineStart(0))

\* C18 happens: /1 was resolved in the document where the key "1" is on the
\* second line and the text 1 also stands in a string value on the first
C18_Witness ==
    /\ pc = "from_pointer"
    /\ file_contents = DocValueBeforeKey
    /\ json_pointer = <<SLASH, "1">>
    /\ StartsWithAt(file_contents, <<QUOTE, "1", QUOTE, ":">>, 10)
    /\ helper_out.index_summation.v < 10

\* C20: the loop invariant of calculate: after every segment the cursor is
\* within the text, on a character boundary, and the remaining suffix is
\* the text from the cursor on; so from_index does not clamp the offset it
\* is handed and its slice does not split a character.
C20_LoopInvariant ==
    pc = "from_pointer" =>
        /\ LoopRan
        /\ \A k \in 1..Len(helper_out.loop) :
              /\ helper_out.loop[k].v.index_summation \in 0..Len(file_contents)
              /\ is_char_boundary(file_contents,
                                  helper_out.loop[k].v.index_summation)
              /\ helper_out.loop[k].v.stacked_file_contents =
                    SliceFrom(file_contents,
                              helper_out.loop[k].v.index_summation)
        /\ helper_out.index_summation =
              Done(helper_out.loop[Len(helper_out.loop)].v.index_summation)
        /\ Min(helper_out.index_summation.v, Len(file_contents)) =
              helper_out.index_summation.v
        /\ ~from_index(file_contents, helper_out.index_summation.v).panic

\* C20 happens: two segments in a row moved the cursor, past a two-byte
\* character
C20_Witness ==
    /\ pc = "from_pointer"
    /\ LoopRan
    /\ \E k \in 1..(Len(PathItems) - 1) :
          /\ Before(k).index_summation < After(k).index_summation
          /\ After(k).index_summation < After(k + 1).index_summation
          /\ \E c \in 1..After(k).index_summation :
                file_contents[c] = ContByte

\* every entry of the map is a whole value put there by one or_insert, the
\* lock keeps readers and a writer apart, and what a call returned from the
\* map is the entry the map holds
CachePublished ==
    /\ DOMAIN json_schemas \subseteq Keys
    /\ \A k \in DOMAIN json_schemas :
          /\ json_schemas[k].by \in Tasks
          /\ json_schemas[k].arc = "inserted"
    /\ Cardinality(rw_lock.writers) <= 1
    /\ rw_lock.writers # {} => rw_lock.readers = {}
    /\ \A t \in Tasks :
          /\ task[t].at = "get" <=> t \in rw_lock.readers
          /\ task[t].at = "entry" <=> t \in rw_lock.writers
          /\ (task[t].ret.tag = "Ok" /\ task[t].ret.arc.arc = "inserted")
             => /\ task[t].key \in DOMAIN json_schemas
                /\ task[t].ret.arc = json_schemas[task[t].key]

\* a step keeps every entry of the map as it is
EntriesKept ==
    \A k \in DOMAIN json_schemas :
        /\ k \in DOMAIN json_schemas'
        /\ json_schemas'[k] = json_schemas[k]

\* C19: publish once: the map holds at most one entry per key, an entry once
\* inserted is never replaced or removed (a later writer's value is
\* discarded by or_insert), and a reader holds the lock only while no writer
\* does, so it sees whole entries only.
C19_PublishOnce == []CachePublished /\ [][EntriesKept]_vars

\* C19 happens: a call that built its own schema returned while the map
\* holds the entry of another call: its or_insert was discarded
C19_Witness ==
    \E t \in Tasks :
        /\ task[t].at = "done"
        /\ task[t].ret.tag = "Ok"
        /\ task[t].ret.arc = Arc(t, "returned")
        /\ task[t].key \in DOMAIN json_schemas
        /\ json_schemas[task[t].key].by # t

\* C21: the offset is monotone in the path: calculate(p + "/" + s, text) >=
\* calculate(p, text), with equality when s matches at the cursor; so /a/a
\* resolves to the offset and line of the parent's match, not to the nested
\* key.
C21_MonotoneInPath ==
    pc = "from_pointer" =>
        /\ LoopRan
        /\ \A k \in 1..Len(PathItems) :
              /\ After(k).index_summation >= Before(k).index_summation
              /\ StartsWithAt(Before(k).stacked_file_contents, PathItems[k], 0)
                    => After(k).index_summation = Before(k).index_summation
        /\ Len(PathItems) >= 2 =>
              /\ Before(Len(PathItems)).index_summation =
                    calculate(Parent(json_pointer), file_contents).v
              /\ helper_out.index_summation.v >=
                    calculate(Parent(json_pointer), file_contents).v
        /\ (json_pointer = PtrSlashA /\ Occurrences(file_contents, KeyA) # {})
              => /\ helper_out.index_summation =
                       calculate(<<SLASH, "a">>, file_contents)
                 /\ helper_out.range =
                       from_pointer(<<SLASH, "a">>, file_contents)

\* C21 happens: /a/a was resolved in the document whose nested key a is on
\* the second line, and came out on the first line, at the parent key
C21_Witness ==
    /\ pc = "from_pointer"
    /\ json_pointer = PtrSlashA
    /\ file_contents = DocNestedSame
    /\ StartsWithAt(file_contents, <<QUOTE, "a", QUOTE, ":", "1">>, 7)
    /\ helper_out.index_summation = Done(2)
    /\ helper_out.range = Done(LineStart(0))

\* an on_change has published at most once; when it is over it has published
\* exactly when the schema loaded and validate_liberally returned Ok, and
\* then the client holds that result under the change's uri and version
PublishedOnce ==
    /\ pc \in {"on_change", "validated"} => change.published = 0
    /\ pc = "finished" =>
          /\ change.published <= 1
          /\ change.published = 1 <=> (schema_parses /\ result.tag = "Ok")
          /\ change.published = 1 =>
                /\ Done(result.diagnostics) =
                      validate_liberally(json_schema, file_contents)
                /\ client[change.uri] =
                      [version |-> change.version,
                       diagnostics |-> result.diagnostics]

\* the client's diagnostics change only by the one publish of an on_change
\* whose validate_liberally returned Ok, and only for its uri
PublishStep ==
    client' # client =>
        /\ pc = "validated"
        /\ schema_parses
        /\ result.tag = "Ok"
        /\ change.published = 0
        /\ change' = [change EXCEPT !.published = 1]
        /\ pc' = "finished"
        /\ client' = [client EXCEPT ![change.uri] =
                         [version |-> change.version,
                          diagnostics |-> result.diagnostics]]

\* C22: each on_change publishes at most once: exactly once when the schema
\* loads and validate_liberally returns Ok, with the change's uri and
\* version, and not at all when either fails; what was published before
\* then stays.
C22_PublishAtMostOnce == []PublishedOnce /\ [][PublishStep]_vars

\* C22 happens: a change whose validation did not return published nothing,
\* and the client still holds the diagnostics of the version before
C22_Witness ==
    /\ pc = "panicked"
    /\ result = Unset
    /\ change.published = 0
    /\ client[change.uri] # Unset
    /\ client[change.uri].version < change.version
    /\ client[change.uri].diagnostics # <<>>

\* a call that returned Ok left its key in the map, and the schema it
\* returned has the value the map holds for the key
CacheServes ==
    \A t \in Tasks :
        task[t].ret.tag = "Ok" =>
            /\ task[t].key \in DOMAIN json_schemas
            /\ task[t].ret.arc.value = json_schemas[task[t].key].value

\* a lookup that finds the key returns the entry and writes nothing; only a
\* lookup that misses goes on to parse and to write
HitStep ==
    \A t \in Tasks :
        /\ (task[t].at = "get" /\ task'[t] # task[t]
             /\ task[t].key \in DOMAIN json_schemas)
            => /\ task'[t].at = "done"
               /\ task'[t].ret = [tag |-> "Ok",
                                  arc |-> json_schemas[task[t].key]]
               /\ json_schemas' = json_schemas
               /\ loads' = loads
        /\ (task'[t].at = "from_str" /\ task[t].at # "from_str")
            => /\ task[t].at = "get"
               /\ task[t].key \notin DOMAIN json_schemas
        /\ (task'[t].at \in {"write", "entry"} /\ task'[t] # task[t])
            => task[t].at \in {"from_str", "write"}

\* C23: every successful get_or_load_schema(key), under every interleaving,
\* returns a schema equal to the one the cache holds for key; once a call
\* has returned Ok the cache contains key, and a lookup made from then on
\* takes the hit path and writes nothing.
C23_ReturnsCached == []CacheServes /\ [][HitStep]_vars

\* C23 happens: a call was served the entry another call inserted, the only
\* load of that key
C23_Witness ==
    \E t \in Tasks :
        /\ task[t].at = "done"
        /\ task[t].ret.tag = "Ok"
        /\ task[t].ret.arc.arc = "inserted"
        /\ task[t].ret.arc.by # t
        /\ loads[task[t].key] = 1


\* extract_schema_reference has returned
Extracted == pc = "extract_schema_reference"
HasSchemaMember ==
    /\ parsed.json.t = "object"
    /\ KeySchema \in DOMAIN parsed.json.members

C25_DraftEquivalent ==
    pc = "both" =>
        /\ result.panic = helper_out.panic
        /\ ~result.panic =>
              /\ Len(result.v) = Len(helper_out.v)
              /\ \A k \in 1..Len(result.v) : result.v[k] = helper_out.v[k]

\* C25 happens: both pipelines returned two diagnostics, on different lines,
\* in the same order
C25_Witness ==
    /\ pc = "both"
    /\ ~result.panic
    /\ Len(result.v) = 2
    /\ result.v[1].range # result.v[2].range
    /\ helper_out = result

====
